---- MODULE Spec2Model ----
(***************************************************************************)
(* nyc_tlc_datafusion (src/src/main.rs): one run of main over a data       *)
(* directory.  main validates the directory, registers every parquet file  *)
(* of it as the table 'yellow', and prints four query results: each of two *)
(* aggregations through the DataFrame API and through SQL.                 *)
(*                                                                         *)
(* The query engine is the DataFusion library.  Its operators (aggregate,  *)
(* select, sort, collect, SQL planning) are modelled by their semantics at *)
(* the call sites of main.rs:                                              *)
(*   - the amount columns are Float64, as in the TLC yellow-taxi files:    *)
(*     x / 0 is NaN or +-inf, never an error and never NULL.  Amounts are  *)
(*     small integers, so sums are exact and a quotient is a fraction in   *)
(*     lowest terms;                                                       *)
(*   - a sort expression without NULLS FIRST/LAST in SQL puts NULLs last   *)
(*     when ascending and first when descending;                           *)
(*   - the order in which the engine emits groups, and so the order of     *)
(*     rows whose sort keys are equal, is not specified: it is an          *)
(*     environment choice (hashOrd) of each query execution.               *)
(*                                                                         *)
(* Two invocations of the program, "a" and "b", run in lockstep over the   *)
(* same directory and the same environment choices; they differ in --year  *)
(* only.  Each action performs one step of main for every run that is at   *)
(* that step.                                                              *)
(***************************************************************************)
EXTENDS Integers, Sequences, FiniteSets, TLC

VARIABLES dirStatus, files, runs

vars == <<dirStatus, files, runs>>

(* ------------------------------ bounds -------------------------------- *)

\* most trip records in a directory whose records differ in their keys only
MaxRecs == 3

\* most trip records in a directory whose records differ in their amounts too
MaxVaried == 2

(* ------------------------- program constants -------------------------- *)

\* for m in 1..=12
LastMonth == 12

Runs == {"a", "b"}

\* the year in the names of the files that hold data
DataYear == 2025

(* ----------------------------- trip records --------------------------- *)

NullTs == [null |-> TRUE, month |-> 0, day |-> 0]

Ts(m, d) == [null |-> FALSE, month |-> m, day |-> d]

Pickups == {NullTs, Ts(1, 17), Ts(2, 3)}

PayTypes == {1, 2}

\* tip_amount, total_amount, fare_amount: zero, positive and negative values
Amounts ==
    { [tip_amount |-> 0, total_amount |-> 0, fare_amount |-> 0],
      [tip_amount |-> 1, total_amount |-> 2, fare_amount |-> 3],
      [tip_amount |-> 1, total_amount |-> -2, fare_amount |-> -1] }

Trips ==
    { [tpep_pickup_datetime |-> p, payment_type |-> t,
       tip_amount |-> a.tip_amount, total_amount |-> a.total_amount,
       fare_amount |-> a.fare_amount] : p \in Pickups, t \in PayTypes, a \in Amounts }

(* ------------------------------ directory ----------------------------- *)

\* format!("yellow_tripdata_{}-{:02}.parquet", year, m): the year and the two
\* digits of the month; the fixed prefix and suffix are left out
Fname(year, m) == <<year, m \div 10, m % 10>>

File(year, m, rows) == [name |-> Fname(year, m), rows |-> rows]

\* data_dir.join(&fname).exists()
Exists(fname) == \E f \in files : f.name = fname

\* names compare as strings: position by position
NameLess(x, y) ==
    \E i \in 1..3 : x[i] < y[i] /\ \A j \in 1..(i - 1) : x[j] = y[j]

\* the files of the directory in the order the listing table scans them: by name
Listing(fs) ==
    LET n == Cardinality(fs)
        at[i \in 1..n] ==
            CHOOSE f \in fs : Cardinality({g \in fs : NameLess(g.name, f.name)}) = i - 1
    IN  [i \in 1..n |-> at[i].rows]

(* -------------------------------- a run ------------------------------- *)

InitRun(year) ==
    [ pc |-> "validate", year |-> year, stderr |-> <<>>, stdout |-> <<>>,
      registered |-> FALSE, table |-> <<>>, err |-> "none", exit |-> "running" ]

\* an Err returned through `?` ends main: the process exits with a non-zero code
Fail(run, e) == [run EXCEPT !.err = e, !.exit = "nonzero", !.pc = "exit"]

\* mutant: the loop written `for m in 1..12`, which leaves December out
RECURSIVE MissingFromExclusive(_, _)
MissingFromExclusive(year, m) ==
    IF m >= LastMonth THEN <<>>
    ELSE LET fname == Fname(year, m)
         IN  (IF ~Exists(fname) THEN <<fname>> ELSE <<>>)
             \o MissingFromExclusive(year, m + 1)

\* the loop of validate_data_dir from month m on: the expected names that are absent
RECURSIVE MissingFrom(_, _)
MissingFrom(year, m) ==
    IF m > LastMonth THEN <<>>
    ELSE LET fname == Fname(year, m)
         IN  (IF ~Exists(fname) THEN <<fname>> ELSE <<>>) \o MissingFrom(year, m + 1)

\* the eprintln! lines of the warning
Warning(missing) ==
    IF missing = <<>> THEN <<>>
    ELSE <<[kind |-> "header"]>>
         \o [i \in 1..Len(missing) |-> [kind |-> "missing", fname |-> missing[i]]]
         \o <<[kind |-> "tip"]>>

\* mutant: the is_dir() check left out
validate_no_dir_check(run) ==
    IF dirStatus = "missing" THEN Fail(run, "NotFound")
    ELSE [run EXCEPT !.stderr = @ \o Warning(MissingFrom(run.year, 1)),
                     !.pc = "register"]

validate_data_dir(run) ==
    IF dirStatus = "missing" THEN Fail(run, "NotFound")
    ELSE IF dirStatus # "dir" THEN Fail(run, "NotADirectory")
    ELSE [run EXCEPT !.stderr = @ \o Warning(MissingFrom(run.year, 1)),
                     !.pc = "register"]

\* mutant: only the files of the year asked for are registered
register_year_only(run, ok) ==
    IF ~ok THEN Fail(run, "RegisterFailed")
    ELSE [run EXCEPT !.registered = TRUE,
                     !.table = Listing({f \in files : f.name[1] = run.year}),
                     !.stdout = @ \o <<[kind |-> "loaded"],
                                       [kind |-> "running", year |-> run.year]>>,
                     !.pc = "agg1_df"]

\* ctx.register_parquet("yellow", data_dir, ..) and the two println! after it
register_parquet(run, ok) ==
    IF ~ok THEN Fail(run, "RegisterFailed")
    ELSE [run EXCEPT !.registered = TRUE,
                     !.table = Listing(files),
                     !.stdout = @ \o <<[kind |-> "loaded"],
                                       [kind |-> "running", year |-> run.year]>>,
                     !.pc = "agg1_df"]

(* ------------------------- the engine: cells -------------------------- *)

Abs(x) == IF x < 0 THEN -x ELSE x

RECURSIVE GCD(_, _)
GCD(x, y) == IF y = 0 THEN x ELSE GCD(y, x % y)

\* a Float64 cell: a fraction n/d in lowest terms with d > 0, or NaN, +inf, -inf
Num(n, d) ==
    LET g == GCD(Abs(n), Abs(d))
        s == IF d < 0 THEN -1 ELSE 1
    IN  [k |-> "num", n |-> (s * n) \div g, d |-> (s * d) \div g]

NaN == [k |-> "nan", n |-> 0, d |-> 0]

Inf == [k |-> "inf", n |-> 0, d |-> 0]

NegInf == [k |-> "-inf", n |-> 0, d |-> 0]

\* mutant: a division by zero yields NULL
DivNull(x, y) ==
    IF y # 0 THEN Num(x, y) ELSE [k |-> "null", n |-> 0, d |-> 0]

\* the quotient of two Float64 values: IEEE 754 division
Div(x, y) ==
    IF y # 0 THEN Num(x, y)
    ELSE IF x = 0 THEN NaN
    ELSE IF x > 0 THEN Inf
    ELSE NegInf

(* ----------------------- the engine: aggregation ---------------------- *)

\* the rows of the table: its partitions one after the other
RECURSIVE Flatten(_)
Flatten(table) ==
    IF table = <<>> THEN <<>> ELSE Head(table) \o Flatten(Tail(table))

\* mutant: grouping that takes equal keys to be adjacent
RECURSIVE FirstSeenAdjacent(_)
FirstSeenAdjacent(ks) ==
    IF ks = <<>> THEN <<>>
    ELSE LET init == FirstSeenAdjacent(SubSeq(ks, 1, Len(ks) - 1))
             last == ks[Len(ks)]
         IN  IF init # <<>> /\ init[Len(init)] = last THEN init ELSE Append(init, last)

\* the distinct values of a sequence, each at its first occurrence
RECURSIVE FirstSeen(_)
FirstSeen(ks) ==
    IF ks = <<>> THEN <<>>
    ELSE LET init == FirstSeen(SubSeq(ks, 1, Len(ks) - 1))
             last == ks[Len(ks)]
         IN  IF \E i \in 1..Len(init) : init[i] = last THEN init ELSE Append(init, last)

\* date_trunc('month', ts): the day is set to the first of the month; NULL stays NULL
date_trunc(ts) == IF ts.null THEN ts ELSE [ts EXCEPT !.day = 1]

\* the group key expressions of the two aggregations
pickup_month(row) == date_trunc(row.tpep_pickup_datetime)

payment_type(row) == row.payment_type

\* mutant: records without a positive total are filtered out before counting
count_positive(g) == Len(SelectSeq(g, LAMBDA r : r.total_amount > 0))

\* count(lit(1)) and COUNT(*): the number of rows of the group
count(g) == Len(g)

\* sum(col): the sum of a column over the rows of the group
RECURSIVE sum(_, _)
sum(g, col) == IF g = <<>> THEN 0 ELSE Head(g)[col] + sum(Tail(g), col)

\* avg(col) of a group (a group has at least one row)
avg(g, col) == Div(sum(g, col), count(g))

\* the rows whose key is k, in their order; ks[i] is the key of rows[i]
RECURSIVE RowsWithKey(_, _, _)
RowsWithKey(rows, ks, k) ==
    IF rows = <<>> THEN <<>>
    ELSE (IF Head(ks) = k THEN <<Head(rows)>> ELSE <<>>)
         \o RowsWithKey(Tail(rows), Tail(ks), k)

\* the groups of rows by their keys ks, in the order in which the keys are first met
Groups(rows, ks) ==
    LET fs == FirstSeen(ks)
    IN  [i \in 1..Len(fs) |-> [key |-> fs[i], rows |-> RowsWithKey(rows, ks, fs[i])]]

\* a stable insertion sort; before[i][j] says that s[i] is ordered strictly before s[j]
SortBy(s, before) ==
    LET ins[k \in 0..Len(s)] ==
            IF k = 0 THEN <<>>
            ELSE LET t == ins[k - 1]
                     pos == Cardinality({j \in 1..Len(t) : ~before[k][t[j]]})
                 IN  SubSeq(t, 1, pos) \o <<k>> \o SubSeq(t, pos + 1, Len(t))
    IN  [i \in 1..Len(s) |-> s[ins[Len(s)][i]]]

\* the orders in which the engine may emit the groups of keys S
Perms(S) ==
    { f \in [1..Cardinality(S) -> S] : \A i, j \in 1..Cardinality(S) : f[i] = f[j] => i = j }

Pos(ord, k) == CHOOSE i \in 1..Len(ord) : ord[i] = k

\* the groups as the engine emits them: in the order hashOrd of their keys
Emit(gs, hashOrd) ==
    SortBy(gs, [i \in 1..Len(gs) |-> [j \in 1..Len(gs) |->
                   Pos(hashOrd, gs[i].key) < Pos(hashOrd, gs[j].key)]])

\* the value a sort expression orders a result row by
SortKey(row, col) ==
    IF col = "pickup_month"
    THEN [null |-> row.pickup_month.null,
          v |-> row.pickup_month.month * 32 + row.pickup_month.day]
    ELSE [null |-> FALSE, v |-> row[col]]

\* col.sort(asc, nulls_first): whether row x is ordered strictly before row y
SortBefore(x, y, col, asc, nulls_first) ==
    LET a == SortKey(x, col)
        b == SortKey(y, col)
    IN  IF a.null /\ b.null THEN FALSE
        ELSE IF a.null THEN nulls_first
        ELSE IF b.null THEN ~nulls_first
        ELSE IF asc THEN a.v < b.v ELSE a.v > b.v

\* mutant: the direction of the sort inverted
sort_flipped(rows, col, asc, nulls_first) ==
    SortBy(rows, [i \in 1..Len(rows) |-> [j \in 1..Len(rows) |->
                     SortBefore(rows[i], rows[j], col, ~asc, nulls_first)]])

sort(rows, col, asc, nulls_first) ==
    SortBy(rows, [i \in 1..Len(rows) |-> [j \in 1..Len(rows) |->
                     SortBefore(rows[i], rows[j], col, asc, nulls_first)]])

\* ORDER BY without NULLS FIRST / NULLS LAST: NULLs last ascending, first descending
SqlNullsFirst(asc) == ~asc

(* ------------------------ the four queries of main --------------------- *)

Agg1Row(g) ==
    [ pickup_month |-> g.key,
      trip_count |-> count(g.rows),
      total_revenue |-> sum(g.rows, "total_amount"),
      avg_fare |-> avg(g.rows, "fare_amount") ]

aggregate1(rows, hashOrd) ==
    LET gs == Emit(Groups(rows, [i \in 1..Len(rows) |-> pickup_month(rows[i])]), hashOrd)
    IN  [i \in 1..Len(gs) |-> Agg1Row(gs[i])]

agg1_df(rows, hashOrd) == sort(aggregate1(rows, hashOrd), "pickup_month", TRUE, TRUE)

agg1_sql(rows, hashOrd) ==
    sort(aggregate1(rows, hashOrd), "pickup_month", TRUE, SqlNullsFirst(TRUE))

Agg2Row(g) ==
    [ payment_type |-> g.key,
      trip_count |-> count(g.rows),
      avg_tip_amount |-> avg(g.rows, "tip_amount"),
      sum_tip_amount |-> sum(g.rows, "tip_amount"),
      sum_total_amount |-> sum(g.rows, "total_amount") ]

agg2_base(rows, hashOrd) ==
    LET gs == Emit(Groups(rows, [i \in 1..Len(rows) |-> payment_type(rows[i])]), hashOrd)
    IN  [i \in 1..Len(gs) |-> Agg2Row(gs[i])]

\* mutant: the quotient taken the wrong way round
select_swapped(b) ==
    [ payment_type |-> b.payment_type,
      trip_count |-> b.trip_count,
      avg_tip_amount |-> b.avg_tip_amount,
      tip_rate |-> Div(b.sum_total_amount, b.sum_tip_amount) ]

\* the projection of agg2_df, and the SELECT list of agg2_sql over its aggregates
select(b) ==
    [ payment_type |-> b.payment_type,
      trip_count |-> b.trip_count,
      avg_tip_amount |-> b.avg_tip_amount,
      tip_rate |-> Div(b.sum_tip_amount, b.sum_total_amount) ]

agg2_df(rows, hashOrd) ==
    LET base == agg2_base(rows, hashOrd)
    IN  sort([i \in 1..Len(base) |-> select(base[i])], "trip_count", FALSE, TRUE)

agg2_sql(rows, hashOrd) ==
    LET base == agg2_base(rows, hashOrd)
    IN  sort([i \in 1..Len(base) |-> select(base[i])], "trip_count", FALSE,
             SqlNullsFirst(FALSE))

MonthKeys == { date_trunc(p) : p \in Pickups }

\* a DataFrame: a plan over the registered table, not yet executed
DataFrame(q, table, hashOrd) == [plan |-> q, table |-> table, hashOrd |-> hashOrd]

Execute(q, table, hashOrd) ==
    LET rows == Flatten(table)
    IN  CASE q = "agg1_df" -> agg1_df(rows, hashOrd)
          [] q = "agg1_sql" -> agg1_sql(rows, hashOrd)
          [] q = "agg2_df" -> agg2_df(rows, hashOrd)
          [] q = "agg2_sql" -> agg2_sql(rows, hashOrd)

\* df.collect(): every partition is scanned; a read failure at partition failAt
\* (0: none) fails the whole collect
collect(df, failAt) ==
    IF failAt \in 1..Len(df.table) THEN [ok |-> FALSE, batches |-> <<>>]
    ELSE [ok |-> TRUE, batches |-> Execute(df.plan, df.table, df.hashOrd)]

\* mutant: the batches read before the failure are printed as they arrive
print_df_partial(title, df, failAt) ==
    LET c == collect(df, failAt)
    IN  IF ~c.ok
        THEN [ok |-> FALSE,
              out |-> <<[kind |-> "table", title |-> title,
                         rows |-> Execute(df.plan, SubSeq(df.table, 1, failAt - 1),
                                          df.hashOrd)]>>]
        ELSE [ok |-> TRUE, out |-> <<[kind |-> "table", title |-> title, rows |-> c.batches]>>]

\* print_df: the lines it prints, and whether it returned Ok
print_df(title, df, failAt) ==
    LET c == collect(df, failAt)
    IN  IF ~c.ok THEN [ok |-> FALSE, out |-> <<>>]
        ELSE [ok |-> TRUE, out |-> <<[kind |-> "table", title |-> title, rows |-> c.batches]>>]

\* one query of main: its banner, the plan, print_df, and `?` on each
Query(run, q, hashOrd, failAt, next) ==
    LET banner == [run EXCEPT !.stdout = Append(@, [kind |-> "banner", title |-> q])]
        p == print_df(q, DataFrame(q, run.table, hashOrd), failAt)
        printed == [banner EXCEPT !.stdout = @ \o p.out]
    IN  IF run.table = <<>> THEN Fail(banner, "QueryFailed")
        ELSE IF ~p.ok THEN Fail(printed, "QueryFailed")
        ELSE [printed EXCEPT !.pc = next]

\* the end of main: the success line and Ok(())
finish(run) ==
    [run EXCEPT !.stdout = Append(@, [kind |-> "success"]), !.exit = "zero", !.pc = "exit"]

(* ------------------------------- actions ------------------------------ *)

\* every run that is at step p takes it: post[r] is run r after the step
Lift(p, post) ==
    /\ \E r \in Runs : runs[r].pc = p
    /\ runs' = [r \in Runs |-> IF runs[r].pc = p THEN post[r] ELSE runs[r]]
    /\ UNCHANGED <<dirStatus, files>>

Validate == Lift("validate", [r \in Runs |-> validate_data_dir(runs[r])])

Register ==
    \E ok \in BOOLEAN : Lift("register", [r \in Runs |-> register_parquet(runs[r], ok)])

\* the orders in which the engine may emit the groups of each aggregation
MonthOrders == Perms(MonthKeys)

PayTypeOrders == Perms(PayTypes)

\* the partitions a scan may fail at; 0 is a scan without a failure
FailPoints == 0..Cardinality(files)

\* the environment of one query execution: the emission order of the groups, and
\* where the scan fails (a scan that fails emits nothing, whatever the order)
QueryEnvs(orders) ==
    { [hashOrd |-> o, failAt |-> 0] : o \in orders } \cup
    { [hashOrd |-> CHOOSE o \in orders : TRUE, failAt |-> k] : k \in FailPoints \ {0} }

Agg1Df ==
    \E e \in QueryEnvs(MonthOrders) :
        Lift("agg1_df", [r \in Runs |->
                 Query(runs[r], "agg1_df", e.hashOrd, e.failAt, "agg1_sql")])

Agg1Sql ==
    \E e \in QueryEnvs(MonthOrders) :
        Lift("agg1_sql", [r \in Runs |->
                 Query(runs[r], "agg1_sql", e.hashOrd, e.failAt, "agg2_df")])

Agg2Df ==
    \E e \in QueryEnvs(PayTypeOrders) :
        Lift("agg2_df", [r \in Runs |->
                 Query(runs[r], "agg2_df", e.hashOrd, e.failAt, "agg2_sql")])

Agg2Sql ==
    \E e \in QueryEnvs(PayTypeOrders) :
        Lift("agg2_sql", [r \in Runs |->
                 Query(runs[r], "agg2_sql", e.hashOrd, e.failAt, "finish")])

Finish == Lift("finish", [r \in Runs |-> finish(runs[r])])

Next == Validate \/ Register \/ Agg1Df \/ Agg1Sql \/ Agg2Df \/ Agg2Sql \/ Finish

\* the two invocations: the default --year and another one
InitRuns == [r \in Runs |-> InitRun(IF r = "a" THEN DataYear ELSE DataYear - 1)]

\* trip records that differ in their keys only
PlainTrips == { t \in Trips : t.tip_amount = 1 /\ t.total_amount = 2 }

\* the record of each file of a directory drawn for its file names
OneTrip == CHOOSE t \in PlainTrips : t.tpep_pickup_datetime = Ts(1, 17) /\ t.payment_type = 1

\* the record sequences of a directory: up to MaxVaried records of any kind, or up
\* to MaxRecs records that differ in their keys only
RowSeqs ==
    UNION { [1..n -> Trips] : n \in 0..MaxVaried } \cup
    UNION { [1..n -> PlainTrips] : n \in (MaxVaried + 1)..MaxRecs }

\* the directory is missing, is a plain file, or is a directory that is empty,
\* holds one monthly file, or holds two with the records split between them
Init ==
    /\ runs = InitRuns
    /\ \/ dirStatus \in {"missing", "file"} /\ files = {}
       \/ dirStatus = "dir" /\ files = {}
       \/ /\ dirStatus = "dir"
          /\ \E rows \in RowSeqs :
                \/ files = {File(DataYear, 1, rows)}
                \/ \E cut \in 1..(Len(rows) - 1) :
                      files = {File(DataYear, 1, SubSeq(rows, 1, cut)),
                               File(DataYear, 2, SubSeq(rows, cut + 1, Len(rows)))}

\* the directory is missing, is a plain file, or is a directory that holds any of
\* the twelve monthly files of DataYear, one record in each
InitDir ==
    /\ runs = InitRuns
    /\ \/ dirStatus \in {"missing", "file"} /\ files = {}
       \/ /\ dirStatus = "dir"
          /\ \E present \in SUBSET (1..LastMonth) :
                files = { File(DataYear, m, <<OneTrip>>) : m \in present }

Spec == Init /\ [][Next]_vars

SpecDir == InitDir /\ [][Next]_vars

(* ============================ the claims ============================== *)

(* what the claims read off a run and off the directory *)

IsTable(e, q) == e.kind = "table" /\ e.title = q

Has(run, q) == \E i \in 1..Len(run.stdout) : IsTable(run.stdout[i], q)

RowsOf(run, q) ==
    run.stdout[CHOOSE i \in 1..Len(run.stdout) : IsTable(run.stdout[i], q)].rows

OfKind(run, kind) == SelectSeq(run.stdout, LAMBDA e : e.kind = kind)

\* the records of the directory: a file and a position in it
Records == UNION { { <<f, i>> : i \in 1..Len(f.rows) } : f \in files }

Rec(c) == c[1].rows[c[2]]

MonthOf(ts) == IF ts.null THEN NullTs ELSE Ts(ts.month, 1)

SourceMonths == { MonthOf(Rec(c).tpep_pickup_datetime) : c \in Records }

SourcePayTypes == { Rec(c).payment_type : c \in Records }

RECURSIVE Total(_, _)
Total(S, col) ==
    IF S = {} THEN 0
    ELSE LET c == CHOOSE c \in S : TRUE IN Rec(c)[col] + Total(S \ {c}, col)

Paid(pt) == { c \in Records : Rec(c).payment_type = pt }

RECURSIVE SumCounts(_)
SumCounts(rows) ==
    IF rows = <<>> THEN 0 ELSE Head(rows).trip_count + SumCounts(Tail(rows))

\* the place of a key among the keys of the scanned rows, in first-encounter order
Encounter(keys, k) == Pos(FirstSeen(keys), k)

ScanRows == Flatten(Listing(files))

Agg1Queries == {"agg1_df", "agg1_sql"}

Agg2Queries == {"agg2_df", "agg2_sql"}

Done(run) == run.pc = "exit"

(* C1: for every table, the monthly-revenue result of the DataFrame API equals    *)
(* the result of the SQL text cell for cell and row for row, and so do the two    *)
(* tip-behavior results.                                                          *)
C1_BuilderTextEquivalence ==
    \A r \in Runs :
        /\ Has(runs[r], "agg1_df") /\ Has(runs[r], "agg1_sql")
              => RowsOf(runs[r], "agg1_df") = RowsOf(runs[r], "agg1_sql")
        /\ Has(runs[r], "agg2_df") /\ Has(runs[r], "agg2_sql")
              => RowsOf(runs[r], "agg2_df") = RowsOf(runs[r], "agg2_sql")

(* C2: a run exits non-zero when the directory is missing or is not a directory   *)
(* (before the table is registered and before anything is printed), or when the   *)
(* registration or a query fails; in every other case it exits zero after the     *)
(* four result tables and the success line, warned or not.                        *)
C2_ExitBehavior ==
    \A r \in Runs :
        LET run == runs[r] IN
        /\ dirStatus = "missing" /\ run.pc # "validate"
              => Done(run) /\ run.err = "NotFound" /\ run.exit = "nonzero"
                 /\ ~run.registered /\ run.stdout = <<>>
        /\ dirStatus = "file" /\ run.pc # "validate"
              => Done(run) /\ run.err = "NotADirectory" /\ run.exit = "nonzero"
                 /\ ~run.registered /\ run.stdout = <<>>
        /\ run.err \in {"NotFound", "NotADirectory"} => dirStatus # "dir"
        /\ ~Done(run) => run.exit = "running" /\ run.err = "none"
        /\ Done(run) =>
              /\ run.exit = (IF run.err = "none" THEN "zero" ELSE "nonzero")
              /\ run.err \in {"none", "NotFound", "NotADirectory", "RegisterFailed",
                              "QueryFailed"}
              /\ run.err = "none" =>
                    /\ [i \in 1..4 |-> OfKind(run, "table")[i].title]
                          = <<"agg1_df", "agg1_sql", "agg2_df", "agg2_sql">>
                    /\ Len(OfKind(run, "table")) = 4
                    /\ run.stdout[Len(run.stdout)].kind = "success"

\* both runs exit zero after their tables, one without a warning and one warned
C2_Witness ==
    /\ \A r \in Runs : Done(runs[r]) /\ runs[r].exit = "zero"
    /\ runs["a"].stderr = <<>>
    /\ runs["b"].stderr # <<>>

(* C3: in an existing directory validate_data_dir succeeds whichever of the       *)
(* twelve expected files are present: it warns exactly when one is absent, names  *)
(* exactly the absent ones, and the run goes on to register every file present.   *)
C3_MissingFilesAdvisory ==
    \A r \in Runs :
        LET run == runs[r]
            absent == { m \in 1..12 :
                          ~\E f \in files : f.name = <<run.year, m \div 10, m % 10>> }
            lines == SelectSeq(run.stderr, LAMBDA e : e.kind = "missing")
        IN  dirStatus = "dir" /\ run.pc # "validate" =>
              /\ (run.stderr # <<>>) <=> (absent # {})
              /\ { lines[i].fname : i \in 1..Len(lines) }
                    = { <<run.year, m \div 10, m % 10>> : m \in absent }
              /\ Len(lines) = Cardinality(absent)
              /\ run.err \notin {"NotFound", "NotADirectory"}
              /\ ~run.registered /\ run.err = "none" => run.pc = "register"
              /\ run.registered => Len(run.table) = Cardinality(files)

\* five of the twelve files are present: the warning names seven, and the run
\* printed the tables of the five partitions
C3_Witness ==
    /\ Cardinality(files) = 5
    /\ Len(runs["a"].stderr) = 9
    /\ Has(runs["a"], "agg2_sql")
    /\ RowsOf(runs["a"], "agg2_sql")[1].trip_count = 5

(* C4 (as amended): the rows of aggregation 1 are non-decreasing by pickup month  *)
(* and no two of them have the same month; the rows of aggregation 2 are          *)
(* non-increasing by trip count.                                                  *)
MonthsAscend(rows) ==
    \A i, j \in 1..Len(rows) :
        i < j /\ ~rows[i].pickup_month.null /\ ~rows[j].pickup_month.null
           => rows[i].pickup_month.month < rows[j].pickup_month.month

CountsDescend(rows) ==
    \A i, j \in 1..Len(rows) : i < j => rows[i].trip_count >= rows[j].trip_count

TiesByEncounter(rows, col, keys) ==
    \A i, j \in 1..Len(rows) :
        i < j /\ rows[i][col] = rows[j][col]
           => Encounter(keys, rows[i][IF col = "trip_count" THEN "payment_type" ELSE col])
                < Encounter(keys, rows[j][IF col = "trip_count" THEN "payment_type" ELSE col])

C5_GroupCompleteness ==
    \A r \in Runs :
        /\ \A q \in Agg1Queries : Has(runs[r], q) =>
              LET rows == RowsOf(runs[r], q) IN
              /\ { rows[i].pickup_month : i \in 1..Len(rows) } = SourceMonths
              /\ Len(rows) = Cardinality(SourceMonths)
        /\ \A q \in Agg2Queries : Has(runs[r], q) =>
              LET rows == RowsOf(runs[r], q) IN
              /\ { rows[i].payment_type : i \in 1..Len(rows) } = SourcePayTypes
              /\ Len(rows) = Cardinality(SourcePayTypes)

\* a group whose records lie in both files, between them the records of another
C5_Witness ==
    /\ Cardinality(files) = 2
    /\ Len(ScanRows) = 3
    /\ pickup_month(ScanRows[1]) = pickup_month(ScanRows[3])
    /\ pickup_month(ScanRows[1]) # pickup_month(ScanRows[2])
    /\ Has(runs["a"], "agg1_df")
    /\ Len(RowsOf(runs["a"], "agg1_df")) = 2

(* C6: the trip counts of the rows of aggregation 1 add up to the number of       *)
(* records in the directory; records with zero or negative amounts count.         *)
C6_CountConservation ==
    \A r \in Runs : \A q \in Agg1Queries :
        Has(runs[r], q) => SumCounts(RowsOf(runs[r], q)) = Cardinality(Records)

\* two records counted, one with zero amounts and one with a negative total
C6_Witness ==
    /\ Cardinality(Records) = 2
    /\ \E c \in Records : Rec(c).total_amount = 0
    /\ \E c \in Records : Rec(c).total_amount < 0
    /\ Has(runs["a"], "agg1_sql")
    /\ SumCounts(RowsOf(runs["a"], "agg1_sql")) = 2

C8_FailedQueryPrintsNothing ==
    \A r \in Runs :
        LET run == runs[r] IN
        run.err = "QueryFailed" =>
            /\ Done(run) /\ run.exit = "nonzero"
            /\ run.stdout[Len(run.stdout)].kind = "banner"
            /\ ~Has(run, run.stdout[Len(run.stdout)].title)
            /\ Len(OfKind(run, "table")) = Len(OfKind(run, "banner")) - 1
            /\ OfKind(run, "success") = <<>>

\* the third query failed over a table of two partitions holding records
C8_Witness ==
    /\ runs["a"].err = "QueryFailed"
    /\ Len(runs["a"].table) = 2
    /\ Len(ScanRows) = 3
    /\ Len(OfKind(runs["a"], "table")) = 2
    /\ Len(OfKind(runs["a"], "banner")) = 3

(* C9: two runs over the same directory that differ in --year print the same      *)
(* result tables and exit alike; the year shows only in the names the warning     *)
(* lists and in the line that reports the year.                                   *)
C9_YearDoesNotFilter ==
    LET a == runs["a"]
        b == runs["b"]
    IN  /\ SelectSeq(a.stdout, LAMBDA e : e.kind # "running")
              = SelectSeq(b.stdout, LAMBDA e : e.kind # "running")
        /\ a.exit = b.exit
        /\ a.err = b.err
        /\ a.table = b.table

\* the years differ, so do the warnings, and both runs printed all four tables
C9_Witness ==
    /\ runs["a"].year # runs["b"].year
    /\ runs["a"].stderr # runs["b"].stderr
    /\ \A r \in Runs : runs[r].exit = "zero" /\ Len(OfKind(runs[r], "table")) = 4
    /\ Len(RowsOf(runs["b"], "agg1_df")) = 2

(* C10: on both surfaces the tip_rate of a payment_type group is the sum of its   *)
(* tip_amount over all files divided by the sum of its total_amount over all      *)
(* files, and the rows hold no helper sums.                                       *)
C10_TipRateOfSums ==
    \A r \in Runs : \A q \in Agg2Queries :
        Has(runs[r], q) =>
            LET rows == RowsOf(runs[r], q) IN
            \A i \in 1..Len(rows) :
                LET tips == Total(Paid(rows[i].payment_type), "tip_amount")
                    totals == Total(Paid(rows[i].payment_type), "total_amount")
                    rate == rows[i].tip_rate
                IN  /\ DOMAIN rows[i]
                          = {"payment_type", "trip_count", "avg_tip_amount", "tip_rate"}
                    /\ totals # 0 =>
                          rate.k = "num" /\ rate.d > 0 /\ rate.n * totals = tips * rate.d
                    /\ totals = 0 => rate.k # "num"

\* a group of two records in two files, one of them with zero amounts: tips 1 over
\* totals 2, a rate of 1/2
C10_Witness ==
    /\ Cardinality(files) = 2
    /\ \E pt \in SourcePayTypes :
          /\ Cardinality(Paid(pt)) = 2
          /\ \A f \in files : \E c \in Paid(pt) : c[1] = f
          /\ Total(Paid(pt), "tip_amount") = 1
          /\ Total(Paid(pt), "total_amount") = 2
    /\ Has(runs["a"], "agg2_sql")
    /\ \E i \in 1..Len(RowsOf(runs["a"], "agg2_sql")) :
          RowsOf(runs["a"], "agg2_sql")[i].tip_rate = Num(1, 2)

====
